---- MODULE Spec2Model ----
(***************************************************************************)
(* A model of gifify.py (make_gif and the CLI main) and of webui.py (the   *)
(* POST /convert handler DnDHandler._handle_convert).                      *)
(*                                                                         *)
(* Python's None is the empty set and a present value v is {v}.           *)
(* A path is the sequence of the dot-separated parts of its file name.     *)
(* A float is identified with its repr string ("12.0").                    *)
(***************************************************************************)
EXTENDS Integers, Sequences, FiniteSets, TLC

VARIABLES
    entry,      \* which program runs: "cli" (gifify.main) or "http" (webui)
    pc,         \* position of the running handler / pipeline
    env,        \* which external binaries shutil.which finds
    fsys,       \* the file system: existing path -> who wrote its content
    ns,         \* the CLI arguments as parsed by argparse (gifify.py:225)
    req,        \* the HTTP request being handled (headers, query, form)
    opts,       \* the handler's resolved options (fps, max_width, ...)
    args,       \* the arguments make_gif was called with
    loc,        \* make_gif locals: gifsicle, tmp_out
    remaining,  \* bytes of the raw body still to be read (webui.py:125)
    written,    \* bytes written to the input temp file so far
    result,     \* how make_gif ended: ok, SystemExit(code), KeyboardInterrupt
    status,     \* HTTP status sent (0: no response sent)
    exitCode,   \* CLI exit status (-1: still running)
    hist,       \* observations: child runs and their codes, warning, temp files
    server,     \* the listening process of webui.main: serving or stopped
    wk          \* the handler threads of the server, one per connection

vars == <<entry, pc, env, fsys, ns, req, opts, args, loc, remaining, written,
          result, status, exitCode, hist, server, wk>>

----------------------------------------------------------------------------
\* Bounds of the model.

\* child processes exit with a code in 0..MaxExit
MaxExit == 2

\* the largest Content-Length a raw upload declares
MaxLen == 3

\* the chunk size of the receive loop (1024 * 1024 in webui.py:127), scaled
\* down so that a body spans several chunks
ChunkSize == 2

----------------------------------------------------------------------------
\* Python values.

None == {}

Some(v) == {v}

Get(o) == CHOOSE v \in o : TRUE

Min(a, b) == IF a < b THEN a ELSE b

Max(a, b) == IF a > b THEN a ELSE b

\* int(s): the literals the model uses; any other string raises ValueError
IntLits ==
    { <<"0", 0>>, <<"-1", -1>>, <<"3", 3>>, <<"7", 7>>, <<"007", 7>>,
      <<"80", 80>>, <<"100", 100>>, <<"256", 256>>, <<"300", 300>>,
      <<"320", 320>>, <<"480", 480>>, <<"1000", 1000>>, <<"1", 1>>, <<"2", 2>>,
      <<"4", 4>> }

\* int(s) as an option: None stands for ValueError
ParseInt(s) == { p[2] : p \in { l \in IntLits : l[1] = s } }

\* str(n) for an int n: the canonical decimal literal
StrInt(n) ==
    CHOOSE s \in { l[1] : l \in IntLits } :
        /\ <<s, n>> \in IntLits
        /\ s # "007"

\* float(s), the float named by its repr; any other string raises ValueError
FloatLits ==
    { <<"12", "12.0">>, <<"12.0", "12.0">>, <<"10", "10.0">>,
      <<"10.0", "10.0">>, <<"0.5", "0.5">>, <<"1e1", "10.0">> }

ParseFloat(s) == { p[2] : p \in { l \in FloatLits : l[1] = s } }

\* str(x) for a float x
StrFloat(x) == x

\* str.lower() on the strings the model uses
Lower(s) ==
    CASE s = "TRUE" -> "true"
      [] s = "Yes" -> "yes"
      [] s = "On" -> "on"
      [] OTHER -> s

\* webui._parse_bool
_parse_bool(v) ==
    IF v = None THEN FALSE
    ELSE Lower(Get(v)) \in {"1", "true", "on", "yes"}

\* Python's `a or b` for an optional string a: b when a is None or ""
OrElse(a, b) == IF a = None \/ a = Some("") THEN b ELSE Get(a)

----------------------------------------------------------------------------
\* Paths and the file system.

\* Path.with_suffix(suffix): the last suffix of the name is replaced
with_suffix(p, suffix) ==
    (IF Len(p) > 1 THEN SubSeq(p, 1, Len(p) - 1) ELSE p) \o suffix

exists(fs, p) == p \in DOMAIN fs

\* a process writes (creates or replaces) the file p
WriteFile(fs, p, who) ==
    [q \in (DOMAIN fs) \cup {p} |-> IF q = p THEN who ELSE fs[q]]

\* Path.unlink(missing_ok=True) inside try/except: a failing deletion is
\* swallowed and leaves the file
unlink(fs, p, ok) ==
    IF ok THEN [q \in (DOMAIN fs) \ {p} |-> fs[q]] ELSE fs

MOVIE == <<"movie", "mp4">>

MISSING == <<"missing", "mp4">>

OUT_GIF == <<"out", "gif">>

OUT_TMP_GIF == <<"out", "tmp", "gif">>

HTTP_IN == <<"gifify_in_1", "bin">>

HTTP_OUT == <<"gifify_out_1", "gif">>

EmptyFs == [q \in {} |-> "x"]

\* the disk before a CLI run: the input movie, and possibly files left at
\* the output path and at the path derived from it
CliDisks ==
    { [q \in {MOVIE} \cup pre |-> IF q = MOVIE THEN "media" ELSE "pre"] :
        pre \in SUBSET {OUT_GIF, OUT_TMP_GIF} }

----------------------------------------------------------------------------
\* gifify.make_gif

NoArgs == [called |-> FALSE]

NoLoc == [set |-> FALSE]

NoResult == [kind |-> "none", code |-> 0]

Ok == [kind |-> "ok", code |-> 0]

\* sys.exit(code)
SystemExit(code) == [kind |-> "exit", code |-> code]

KeyboardInterrupt == [kind |-> "interrupt", code |-> 0]

\* gifify.py:131  gifsicle = which("gifsicle") if optimize else None
WhichGifsicle(optimize, e) ==
    IF optimize /\ e.gifsicle THEN Some("/usr/bin/gifsicle") ELSE None

\* gifify.py:135-138  the path ffmpeg writes to
TmpOut(output_path, optimize, gifsicle) ==
    IF optimize /\ gifsicle # None
    THEN with_suffix(output_path, <<"tmp", "gif">>)
    ELSE output_path

\* gifify.py:81-93  detect_input_mode: "exit" stands for sys.exit(2)
detect_input_mode(input_path, pattern) ==
    IF pattern # None /\ pattern # Some("") THEN "images"
    ELSE IF input_path = None THEN "exit"
    ELSE "video"

\* str(path): the parts of the name joined by dots
PathStr(p) ==
    IF Len(p) = 1 THEN p[1]
    ELSE IF Len(p) = 2 THEN p[1] \o "." \o p[2]
    ELSE p[1] \o "." \o p[2] \o "." \o p[3]

\* ",".join(parts) as the sequence of the parts and the commas between them
RECURSIVE JoinComma(_)
JoinComma(parts) ==
    IF Len(parts) <= 1 THEN parts
    ELSE <<parts[1], ",">> \o JoinComma(Tail(parts))

\* the string a sequence of pieces spells
RECURSIVE Text(_)
Text(pieces) ==
    IF pieces = <<>> THEN "" ELSE pieces[1] \o Text(Tail(pieces))

\* gifify.py:61-70  the paletteuse option of a dither mode
DitherOpt(dither) ==
    CASE dither = "none" -> "dither=none"
      [] dither = "bayer" -> "dither=bayer:bayer_scale=5"
      [] dither = "floyd_steinberg" -> "dither=floyd_steinberg"
      [] OTHER -> "dither=sierra2_4a"

\* gifify.py:45-57  parts: the frame-rate stage, then the scale stage when a
\* maximal width is given
FilterPartsScaleFirst(fps, max_width) ==
    (IF max_width # None
     THEN << "scale='min(iw," \o ToString(Get(max_width))
                 \o ")':-1:flags=lanczos" >>
     ELSE <<>>) \o << "fps=" \o fps >>

FilterParts(fps, max_width) ==
    << "fps=" \o fps >> \o
    (IF max_width # None
     THEN << "scale='min(iw," \o ToString(Get(max_width))
                 \o ")':-1:flags=lanczos" >>
     ELSE <<>>)

\* gifify.py:74-77  the stages before the split and the split stage
CoreAndSplitNoComma(core) == core \o << "split[s0][s1]" >>

CoreAndSplit(core) ==
    IF core # <<>> THEN core \o << ",", "split[s0][s1]" >>
    ELSE << "split[s0][s1]" >>

\* gifify.py:44-78  build_filter: the filter expression as the sequence of
\* its stages and of the separators between them
build_filter(fps, max_width, colors, dither) ==
    LET core == JoinComma(FilterParts(fps, max_width))
        palettegen == "[s0]palettegen=stats_mode=diff:max_colors="
                          \o ToString(colors) \o "[p]"
        paletteuse == "[s1][p]paletteuse=" \o DitherOpt(dither)
    IN  CoreAndSplit(core) \o << ";", palettegen, ";", paletteuse >>

\* gifify.py:96-103  add_time_opts: a marker that is None or "" adds nothing
add_time_opts_NoStart(start, duration, to) ==
    (IF duration # None /\ duration # Some("")
     THEN << "-t", Get(duration) >> ELSE <<>>) \o
    (IF to # None /\ to # Some("") THEN << "-to", Get(to) >> ELSE <<>>)

add_time_opts(start, duration, to) ==
    (IF start # None /\ start # Some("")
     THEN << "-ss", Get(start) >> ELSE <<>>) \o
    (IF duration # None /\ duration # Some("")
     THEN << "-t", Get(duration) >> ELSE <<>>) \o
    (IF to # None /\ to # Some("") THEN << "-to", Get(to) >> ELSE <<>>)

\* gifify.py:158  the pattern holds a glob metacharacter
IsGlob(pat) == pat \in {"frames/*.png", "f?.png", "f[0-9].png"}

\* gifify.py:146-170  the ffmpeg command line
FfmpegCmd(a, tmp_out, vf) ==
    << "/usr/bin/ffmpeg", "-hide_banner", IF a.overwrite THEN "-y" ELSE "-n" >>
    \o add_time_opts(a.start, a.duration, a.to)
    \o (IF detect_input_mode(a.input_path, a.pattern) = "images"
        THEN IF IsGlob(Get(a.pattern))
             THEN << "-pattern_type", "glob", "-i", Get(a.pattern) >>
             ELSE << "-i", Get(a.pattern) >>
        ELSE << "-i", PathStr(Get(a.input_path)) >>)
    \o << "-vf", Text(vf), "-loop", ToString(a.loop), PathStr(tmp_out) >>

\* gifify.py:130-170  make_gif up to the call of ffmpeg
MakeGifStart ==
    /\ pc = "make_gif"
    /\ LET gifsicle == WhichGifsicle(args.optimize, env)
           tmp_out == TmpOut(args.output_path, args.optimize, gifsicle)
           vf == build_filter(args.fps, args.max_width, args.colors,
                              args.dither)
           runs == /\ env.ffmpeg
                   /\ ~(exists(fsys, tmp_out) /\ ~args.overwrite)
                   /\ detect_input_mode(args.input_path, args.pattern)
                          # "exit"
           l == [set |-> TRUE, gifsicle |-> gifsicle, tmp_out |-> tmp_out,
                 built |-> env.ffmpeg,
                 vf |-> IF env.ffmpeg THEN vf ELSE <<>>,
                 cmd |-> IF runs THEN FfmpegCmd(args, tmp_out, vf) ELSE <<>>]
       IN  /\ loc' = l
           /\ IF ~env.ffmpeg
              THEN /\ result' = SystemExit(2)
                   /\ pc' = "returned"
              ELSE IF exists(fsys, tmp_out) /\ ~args.overwrite
              THEN /\ result' = SystemExit(1)
                   /\ pc' = "returned"
              ELSE IF detect_input_mode(args.input_path, args.pattern) = "exit"
              THEN /\ result' = SystemExit(2)
                   /\ pc' = "returned"
              ELSE /\ result' = result
                   /\ pc' = "ffmpeg"
    /\ UNCHANGED <<entry, ns, env, fsys, req, opts, args, remaining, written, status,
                   exitCode, hist>>
    /\ UNCHANGED <<server, wk>>

\* gifify.py:173-180  what follows ffmpeg's exit code
AfterFfmpegIgnoreCode(code, optimize, gifsicle) ==
    IF optimize /\ gifsicle # None
    THEN [pc |-> "gifsicle", result |-> NoResult, warned |-> FALSE]
    ELSE [pc |-> "returned", result |-> Ok, warned |-> optimize]

AfterFfmpegWarnFails(code, optimize, gifsicle) ==
    IF code # 0
    THEN [pc |-> "returned", result |-> SystemExit(code), warned |-> FALSE]
    ELSE IF optimize /\ gifsicle = None
    THEN [pc |-> "returned", result |-> SystemExit(1), warned |-> TRUE]
    ELSE IF optimize
    THEN [pc |-> "gifsicle", result |-> NoResult, warned |-> FALSE]
    ELSE [pc |-> "returned", result |-> Ok, warned |-> FALSE]

AfterFfmpeg(code, optimize, gifsicle) ==
    IF code # 0
    THEN [pc |-> "returned", result |-> SystemExit(code), warned |-> FALSE]
    ELSE IF optimize /\ gifsicle = None
    THEN [pc |-> "returned", result |-> Ok, warned |-> TRUE]
    ELSE IF optimize
    THEN [pc |-> "gifsicle", result |-> NoResult, warned |-> FALSE]
    ELSE [pc |-> "returned", result |-> Ok, warned |-> FALSE]

\* gifify.py:172-180  run(cmd) for ffmpeg: the child exits with some code;
\* on success it has written tmp_out, on failure it may leave a partial file
RunFfmpeg ==
    /\ pc = "ffmpeg"
    /\ \E code \in 0..MaxExit, partial \in BOOLEAN :
        LET nxt == AfterFfmpeg(code, args.optimize, loc.gifsicle)
        IN  /\ code = 0 => ~partial
            /\ fsys' = IF code = 0 THEN WriteFile(fsys, loc.tmp_out, "ffmpeg")
                       ELSE IF partial
                       THEN WriteFile(fsys, loc.tmp_out, "ffmpeg_partial")
                       ELSE fsys
            /\ hist' = [hist EXCEPT !.ffmpegRuns = @ + 1,
                                    !.ffmpegCode = code,
                                    !.ffmpegOut = Some(loc.tmp_out),
                                    !.warned = nxt.warned]
            /\ pc' = nxt.pc
            /\ result' = nxt.result
    /\ UNCHANGED <<entry, ns, env, req, opts, args, loc, remaining, written, status,
                   exitCode>>
    /\ UNCHANGED <<server, wk>>

\* gifify.py:106-110  a KeyboardInterrupt while the CLI waits for a child
Interrupt ==
    /\ entry = "cli"
    /\ pc \in {"ffmpeg", "gifsicle"}
    /\ \E partial \in BOOLEAN :
        fsys' = IF partial /\ pc = "ffmpeg"
                THEN WriteFile(fsys, loc.tmp_out, "ffmpeg_partial")
                ELSE fsys
    /\ result' = KeyboardInterrupt
    /\ pc' = "returned"
    /\ UNCHANGED <<entry, ns, env, req, opts, args, loc, remaining, written, status,
                   exitCode, hist>>
    /\ UNCHANGED <<server, wk>>

\* an exception other than SystemExit and KeyboardInterrupt
Raised == [kind |-> "error", code |-> 1]

\* gifify.py:109  subprocess.run itself raises (the binary cannot be
\* executed): the exception leaves make_gif
RunRaises ==
    /\ pc \in {"ffmpeg", "gifsicle"}
    /\ result' = Raised
    /\ pc' = "returned"
    /\ UNCHANGED <<entry, ns, env, fsys, req, opts, args, loc, remaining,
                   written, status, exitCode, hist>>
    /\ UNCHANGED <<server, wk>>

\* gifify.py:190-194  the temporary file is deleted when it is not the output
UnlinkTmpNever(fs, tmp_out, output_path, ok) == fs

UnlinkTmp(fs, tmp_out, output_path, ok) ==
    IF tmp_out # output_path THEN unlink(fs, tmp_out, ok) ELSE fs

\* gifify.py:182-196  run(gcmd) for gifsicle, reading tmp_out and writing
\* output_path, then the deletion of tmp_out
RunGifsicle ==
    /\ pc = "gifsicle"
    /\ \E code \in 0..MaxExit, partial \in BOOLEAN, unlinkOk \in BOOLEAN :
        /\ code = 0 => ~partial
        /\ code # 0 => unlinkOk
        /\ hist' = [hist EXCEPT !.gifsicleRuns = @ + 1,
                                !.gifsicleCode = code,
                                !.gifsicleIn = Some(loc.tmp_out),
                                !.gifsicleOut = Some(args.output_path),
                                !.unlinkFailed = ~unlinkOk]
        /\ IF code # 0
           THEN /\ fsys' = IF partial
                           THEN WriteFile(fsys, args.output_path,
                                          "gifsicle_partial")
                           ELSE fsys
                /\ result' = SystemExit(code)
           ELSE /\ fsys' = UnlinkTmp(
                               WriteFile(fsys, args.output_path, "gifsicle"),
                               loc.tmp_out, args.output_path, unlinkOk)
                /\ result' = Ok
    /\ pc' = "returned"
    /\ UNCHANGED <<entry, ns, env, req, opts, args, loc, remaining, written, status,
                   exitCode>>
    /\ UNCHANGED <<server, wk>>

----------------------------------------------------------------------------
\* gifify.main (the CLI)

NoReq == [present |-> FALSE]

NoHist ==
    [ffmpegRuns |-> 0, ffmpegCode |-> 0, ffmpegOut |-> None,
     gifsicleRuns |-> 0, gifsicleCode |-> 0, gifsicleIn |-> None,
     gifsicleOut |-> None, warned |-> FALSE, unlinkFailed |-> FALSE,
     temps |-> {}, calls |-> 0, preOut |-> FALSE, detail |-> ""]

\* gifify.py:248  max_width=None if args.max_width <= 0 else args.max_width
NormWidth(w) == IF w <= 0 THEN None ELSE Some(w)

\* gifify.py:249 and webui.py:195  max(2, min(256, colors))
Clamp(c) == Max(2, Min(256, c))

NoNs == [parsed |-> FALSE]

\* gifify.py:206-211  the choices argparse accepts for --dither
DitherChoices == {"sierra2_4a", "bayer", "floyd_steinberg", "none"}

\* gifify.py:203-215  the option flags of a run with their defaults
DefaultFlags ==
    [max_width |-> 480, colors |-> 256, dither |-> "sierra2_4a",
     start |-> None, duration |-> None, to |-> None]

\* the option flags a run is given: any set of trim markers, or one other
\* option away from its default
CliFlags ==
    { [DefaultFlags EXCEPT !.start = st, !.duration = du, !.to = t] :
        st \in {None, Some("1.5")}, du \in {None, Some("2")},
        t \in {None, Some("00:00:05")} }
    \cup { [DefaultFlags EXCEPT !.start = Some("")] }
    \cup { [DefaultFlags EXCEPT !.max_width = w] : w \in {0, -1, 320} }
    \cup { [DefaultFlags EXCEPT !.colors = c] : c \in {0, 1000} }
    \cup { [DefaultFlags EXCEPT !.dither = d] :
             d \in {"bayer", "none", "floyd_steinberg", "bogus"} }

\* gifify.py:224-260  main up to the call of make_gif; argparse exits with
\* status 2 on a --dither value outside its choices
Main ==
    /\ entry = "cli"
    /\ pc = "idle"
    /\ \E input \in {None, Some(MOVIE), Some(MISSING)},
          output \in {None, Some(OUT_GIF), Some(OUT_TMP_GIF)},
          pattern \in {None, Some("frames/*.png"), Some("f%03d.png")},
          optimize \in BOOLEAN, no_overwrite \in BOOLEAN,
          flags \in CliFlags :
        /\ ns' = [parsed |-> TRUE, input |-> input, output |-> output,
                  pattern |-> pattern, optimize |-> optimize,
                  no_overwrite |-> no_overwrite, flags |-> flags]
        /\ IF flags.dither \notin DitherChoices
           THEN /\ exitCode' = 2
                /\ pc' = "exited"
                /\ UNCHANGED <<args, hist>>
           ELSE IF input # None /\ ~exists(fsys, Get(input)) /\ pattern = None
           THEN /\ exitCode' = 2
                /\ pc' = "exited"
                /\ UNCHANGED <<args, hist>>
           ELSE IF output = None /\ input = None
           THEN /\ exitCode' = 2
                /\ pc' = "exited"
                /\ UNCHANGED <<args, hist>>
           ELSE LET out == IF output # None THEN Get(output)
                           ELSE with_suffix(Get(input), <<"gif">>)
                IN  /\ args' = [called |-> TRUE,
                                input_path |-> input,
                                output_path |-> out,
                                fps |-> "12.0",
                                max_width |-> NormWidth(flags.max_width),
                                colors |-> Clamp(flags.colors),
                                dither |-> flags.dither,
                                loop |-> 0,
                                start |-> flags.start,
                                duration |-> flags.duration,
                                to |-> flags.to,
                                pattern |-> pattern,
                                optimize |-> optimize,
                                lossy |-> None,
                                overwrite |-> ~no_overwrite]
                    /\ hist' = [hist EXCEPT !.calls = @ + 1,
                                            !.preOut = exists(fsys, out)]
                    /\ pc' = "make_gif"
                    /\ UNCHANGED exitCode
    /\ UNCHANGED <<entry, env, fsys, req, opts, loc, remaining, written,
                   result, status>>
    /\ UNCHANGED <<server, wk>>

\* gifify.py:261-268  make_gif returned or raised: the process exit status
MainReturn ==
    /\ entry = "cli"
    /\ pc = "returned"
    /\ exitCode' = CASE result.kind = "ok" -> 0
                     [] result.kind = "interrupt" -> 130
                     [] OTHER -> result.code
    /\ pc' = "exited"
    /\ UNCHANGED <<entry, ns, env, fsys, req, opts, args, loc, remaining, written,
                   result, status, hist>>
    /\ UNCHANGED <<server, wk>>

----------------------------------------------------------------------------
\* webui.DnDHandler._handle_convert (POST /convert)

Fields ==
    {"fps", "max_width", "colors", "dither", "loop", "start", "duration",
     "to", "optimize", "lossy"}

\* the raw values a request may carry in one option field
RawVals(fld) ==
    CASE fld = "fps" -> {"x", "10", "0.5", "1e1"}
      [] fld = "max_width" -> {"x", "0", "-1", "320", "007"}
      [] fld = "colors" -> {"x", "0", "100", "300", "1000"}
      [] fld = "dither" -> {"bayer", "none", "floyd_steinberg", "bogus"}
      [] fld = "loop" -> {"x", "0", "3"}
      [] fld = "optimize" -> {"1", "TRUE", "On", "Yes", "0", "false"}
      [] fld = "lossy" -> {"x", "0", "80"}
      [] OTHER -> {"1.5", "00:00:02"}

\* a field of the query string or of the form: absent, blank or a raw value
RawField(fld) == {None, Some("")} \cup { Some(v) : v \in RawVals(fld) }

OCTET == "application/octet-stream"

MULTIPART == "multipart/form-data"

CTypes == {OCTET, MULTIPART, "text/plain", ""}

\* the Content-Length header: missing, blank, not a number, zero, negative,
\* or the length of the body
CLens ==
    {None, Some(""), Some("x"), Some("0"), Some("-1")}
        \cup { Some(StrInt(n)) : n \in 1..MaxLen }

\* webui.py:93  int(headers.get("Content-Length", "0") or 0); None: ValueError
ContentLength(clen) ==
    ParseInt(OrElse(IF clen = None THEN Some("0") ELSE clen, "0"))

\* webui.py:98  urllib.parse.parse_qs drops the fields with a blank value
parse_qs(rawq) ==
    [n \in Fields |-> IF rawq[n] = Some("") THEN None ELSE rawq[n]]

\* webui.py:100-101  qget
qget(q, name, default) == IF q[name] # None THEN q[name] ELSE default

\* the numeric fields in the order the handler parses them
FirstBad(fps, max_width, colors, loop, lossy) ==
    CASE fps = None -> "fps"
      [] max_width = None -> "max_width"
      [] colors = None -> "colors"
      [] loop = None -> "loop"
      [] lossy = None -> "lossy"
      [] OTHER -> ""

\* webui.py:104-114  the options read from the query string; ok is FALSE
\* when a conversion raises ValueError, bad names the field that raised
QueryStage(q) ==
    LET fps == ParseFloat(OrElse(qget(q, "fps", Some("12")), "12"))
        max_width == ParseInt(OrElse(qget(q, "max_width", Some("480")), "480"))
        colors == ParseInt(OrElse(qget(q, "colors", Some("256")), "256"))
        dither == OrElse(qget(q, "dither", Some("sierra2_4a")), "sierra2_4a")
        loop == ParseInt(OrElse(qget(q, "loop", Some("0")), "0"))
        lossy == qget(q, "lossy", None)
        \* Some(None): lossy_i is None
        lossy_i == IF lossy \notin {None, Some("")}
                   THEN { Some(i) : i \in ParseInt(Get(lossy)) }
                   ELSE Some(None)
        bad == FirstBad(fps, max_width, colors, loop, lossy_i)
    IN  IF bad # ""
        THEN [ok |-> FALSE, bad |-> bad]
        ELSE [ok |-> TRUE,
              fps |-> Get(fps),
              max_width |-> Get(max_width),
              colors |-> Get(colors),
              dither |-> dither,
              loop |-> Get(loop),
              start |-> qget(q, "start", None),
              duration |-> qget(q, "duration", None),
              to |-> qget(q, "to", None),
              optimize |-> _parse_bool(qget(q, "optimize", None)),
              lossy |-> lossy,
              lossy_i |-> Get(lossy_i)]

\* webui.py:156-159  get: a form field that is present and not blank
getIgnoresForm(fs, name, default) == default

get(fs, name, default) ==
    IF fs[name] # None /\ fs[name] # Some("") THEN fs[name] ELSE default

\* Python's `a or b` for two optional strings
OrOpt(a, b) == IF a = None \/ a = Some("") THEN b ELSE a

\* webui.py:160-170  the form fields override the options of the query
FormStage(fs, o) ==
    LET fps == ParseFloat(OrElse(get(fs, "fps", Some(StrFloat(o.fps))),
                                 StrFloat(o.fps)))
        max_width == ParseInt(OrElse(
                         get(fs, "max_width", Some(StrInt(o.max_width))),
                         StrInt(o.max_width)))
        colors == ParseInt(OrElse(get(fs, "colors", Some(StrInt(o.colors))),
                                  StrInt(o.colors)))
        dither == OrElse(get(fs, "dither", Some(o.dither)), o.dither)
        loop == ParseInt(OrElse(get(fs, "loop", Some(StrInt(o.loop))),
                                StrInt(o.loop)))
        lossy == get(fs, "lossy", o.lossy)
        lossy_i == IF lossy \notin {None, Some("")}
                   THEN { Some(i) : i \in ParseInt(Get(lossy)) }
                   ELSE Some(o.lossy_i)
        bad == FirstBad(fps, max_width, colors, loop, lossy_i)
    IN  IF bad # ""
        THEN [ok |-> FALSE, bad |-> bad]
        ELSE [ok |-> TRUE,
              fps |-> Get(fps),
              max_width |-> Get(max_width),
              colors |-> Get(colors),
              dither |-> dither,
              loop |-> Get(loop),
              start |-> OrOpt(get(fs, "start", o.start), o.start),
              duration |-> OrOpt(get(fs, "duration", o.duration), o.duration),
              to |-> OrOpt(get(fs, "to", o.to), o.to),
              optimize |-> _parse_bool(get(fs, "optimize",
                               IF o.optimize THEN Some("true") ELSE None)),
              lossy |-> lossy,
              lossy_i |-> Get(lossy_i)]

\* webui.py:190-206  the arguments of the handler's call of make_gif
CallArgs(o, in_path, out_path) ==
    [called |-> TRUE,
     input_path |-> Some(in_path),
     output_path |-> out_path,
     fps |-> o.fps,
     max_width |-> NormWidth(o.max_width),
     colors |-> Clamp(o.colors),
     dither |-> o.dither,
     loop |-> o.loop,
     start |-> o.start,
     duration |-> o.duration,
     to |-> o.to,
     pattern |-> None,
     optimize |-> o.optimize,
     lossy |-> o.lossy_i,
     overwrite |-> TRUE]

NoOpts == [ok |-> FALSE, bad |-> ""]

\* a request with one option field under test (in the query, in the form,
\* or in both) and possibly optimize=1 in the query
Request(ctype, clen, fld, qv, fv, qopt, body) ==
    [present |-> TRUE,
     ctype |-> ctype,
     clen |-> clen,
     q |-> [n \in Fields |-> IF n = fld THEN qv
                             ELSE IF n = "optimize" THEN qopt ELSE None],
     f |-> [n \in Fields |-> IF n = fld THEN fv ELSE None],
     body |-> body]

\* the exception leaves _handle_convert: no response is sent
Crash ==
    /\ pc' = "crashed"
    /\ status' = 0

\* webui.py:232-239  _send_plain with an error status
SendError(code) ==
    /\ pc' = "failed"
    /\ status' = code

\* webui.py:85-183  _handle_convert from the request line to the input temp
\* file: the headers and the options are parsed, then the body is taken
\* according to the content type
HandleConvert ==
    /\ entry = "http"
    /\ pc = "idle"
    /\ \E ctype \in CTypes, clen \in CLens, fld \in Fields,
          qopt \in {None, Some("1")},
          body \in {"raw", "ok", "malformed", "nofile"}, copyOk \in BOOLEAN :
       \E qv \in RawField(fld),
          fv \in (IF body = "ok" THEN RawField(fld) ELSE {None}) :
        LET r == Request(ctype, clen, fld, qv, fv, qopt, body)
            length == ContentLength(clen)
            o == QueryStage(parse_qs(r.q))
            fo == FormStage(r.f, o)
        IN  /\ (body = "raw") <=> (ctype # MULTIPART)
            /\ ~(ctype = MULTIPART /\ body = "ok" /\ length # None /\ o.ok
                 /\ fo.ok) => copyOk
            /\ req' = r
            /\ IF length = None \/ ~o.ok
               THEN /\ Crash
                    /\ UNCHANGED <<fsys, opts, remaining, hist>>
               ELSE IF ctype = OCTET
               THEN IF Get(length) <= 0
                    THEN /\ SendError(400)
                         /\ UNCHANGED <<fsys, opts, remaining, hist>>
                    ELSE /\ fsys' = WriteFile(fsys, HTTP_IN, "upload")
                         /\ hist' = [hist EXCEPT !.temps = @ \cup {HTTP_IN}]
                         /\ opts' = o
                         /\ remaining' = Get(length)
                         /\ pc' = "recv"
                         /\ UNCHANGED status
               ELSE IF ctype = MULTIPART
               THEN IF body # "ok"
                    THEN /\ SendError(400)
                         /\ UNCHANGED <<fsys, opts, remaining, hist>>
                    ELSE IF ~fo.ok
                    THEN /\ Crash
                         /\ UNCHANGED <<fsys, opts, remaining, hist>>
                    ELSE /\ fsys' = WriteFile(fsys, HTTP_IN, "upload")
                         /\ hist' = [hist EXCEPT !.temps = @ \cup {HTTP_IN}]
                         /\ opts' = fo
                         /\ IF copyOk
                            THEN /\ pc' = "mkout"
                                 /\ UNCHANGED status
                            ELSE Crash
                         /\ UNCHANGED remaining
               ELSE /\ SendError(415)
                    /\ UNCHANGED <<fsys, opts, remaining, hist>>
    /\ UNCHANGED <<entry, ns, env, args, loc, written, result, exitCode>>
    /\ UNCHANGED <<server, wk>>

\* webui.py:126-131  one turn of the receive loop: rfile.read returns at most
\* min(remaining, chunk) bytes, none at the end of the stream
ReadChunk ==
    /\ pc = "recv"
    /\ \E n \in 0..Min(remaining, ChunkSize) :
        /\ written' = written + n
        /\ remaining' = remaining - n
        /\ pc' = IF n = 0 \/ remaining - n = 0 THEN "mkout" ELSE "recv"
    /\ UNCHANGED <<entry, ns, env, fsys, req, opts, args, loc, result, status,
                   exitCode, hist>>
    /\ UNCHANGED <<server, wk>>

\* webui.py:127  rfile.read raises (the connection is reset): the exception
\* leaves the handler, the input temp file was made with delete=False
ReadError ==
    /\ pc = "recv"
    /\ Crash
    /\ UNCHANGED <<entry, ns, env, fsys, req, opts, args, loc, remaining, written,
                   result, exitCode, hist>>
    /\ UNCHANGED <<server, wk>>

\* webui.py:185-206  the output temp file is created and make_gif is called;
\* when the creation raises, the exception leaves the handler
CreateOut ==
    /\ pc = "mkout"
    /\ \E ok \in BOOLEAN :
        IF ok
        THEN /\ fsys' = WriteFile(fsys, HTTP_OUT, "placeholder")
             /\ hist' = [hist EXCEPT !.temps = @ \cup {HTTP_OUT},
                                     !.calls = @ + 1,
                                     !.preOut = TRUE]
             /\ args' = CallArgs(opts, HTTP_IN, HTTP_OUT)
             /\ pc' = "make_gif"
             /\ UNCHANGED status
        ELSE /\ Crash
             /\ UNCHANGED <<fsys, hist, args>>
    /\ UNCHANGED <<entry, ns, env, req, opts, loc, remaining, written, result,
                   exitCode>>
    /\ UNCHANGED <<server, wk>>

\* webui.py:222-230  the finally clause: both temp files are unlinked,
\* a failing deletion is swallowed
Cleanup(fs, in_path, out_path, inOk, outOk) ==
    unlink(unlink(fs, in_path, inOk), out_path, outOk)

\* str(e) for what make_gif raised
ErrorText(res) ==
    IF res.kind = "exit" THEN ToString(res.code) ELSE "OSError"

\* webui.py:208-221  the response after make_gif: 200 with the GIF when it
\* returned, 500 with the text of the exception when it raised anything
\* (except BaseException)
AfterMakeGifExceptException(res) ==
    IF res.kind = "ok"
    THEN [pc |-> "done", status |-> 200, detail |-> ""]
    ELSE IF res.kind = "exit"
    THEN [pc |-> "crashed", status |-> 0, detail |-> ""]
    ELSE [pc |-> "failed", status |-> 500,
          detail |-> "convert error: " \o ErrorText(res)]

AfterMakeGif(res) ==
    IF res.kind = "ok"
    THEN [pc |-> "done", status |-> 200, detail |-> ""]
    ELSE [pc |-> "failed", status |-> 500,
          detail |-> "convert error: " \o ErrorText(res)]

\* webui.py:208-230  make_gif returned (200 with the GIF) or raised (500),
\* then the cleanup
HandleResult ==
    /\ entry = "http"
    /\ pc = "returned"
    /\ status' = AfterMakeGif(result).status
    /\ pc' = AfterMakeGif(result).pc
    /\ hist' = [hist EXCEPT !.detail = AfterMakeGif(result).detail]
    /\ \E inOk \in BOOLEAN, outOk \in BOOLEAN :
        fsys' = Cleanup(fsys, HTTP_IN, HTTP_OUT, inOk, outOk)
    /\ UNCHANGED <<entry, ns, env, req, opts, args, loc, remaining, written,
                   result, exitCode>>
    /\ UNCHANGED <<server, wk>>

----------------------------------------------------------------------------
\* webui.main: the threading server and its handler threads

\* the connections the server accepts in a run
NWorkers == 2

\* each accepted connection is served by a thread of its own
Workers == 1..NWorkers

\* a thread that has not been started
Free == [pc |-> "free"]

\* what a connection brings: a well-formed upload ("none") or a request that
\* fails at one stage of the handler (an option that does not parse, a
\* length that is not positive, an unsupported content type, a connection
\* reset during the body); whether it asks for the optimisation; whether the
\* ffmpeg child it starts never exits
ServerRequests ==
    { [fault |-> "none", optimize |-> o, hangs |-> FALSE] : o \in BOOLEAN }
    \cup { [fault |-> "none", optimize |-> FALSE, hangs |-> TRUE] }
    \cup { [fault |-> f, optimize |-> FALSE, hangs |-> FALSE] :
             f \in {"badopt", "badlen", "badtype", "reset"} }

\* a name tempfile gives: the prefix, a random part, the suffix
TempName(prefix, i, suffix) == << prefix \o ToString(i) >> \o suffix

\* the least of a set of random parts; they are interchangeable, nothing
\* else depends on them
Least(ids) == { i \in ids : \A j \in ids : i <= j }

\* webui.py:124, 185  tempfile.NamedTemporaryFile(prefix=, suffix=,
\* delete=False) creates the file exclusively: the name is one that does not
\* exist
NamedTemporaryFileNotExclusive(fs, prefix, suffix) ==
    { TempName(prefix, i, suffix) : i \in Least(Workers) }

NamedTemporaryFile(fs, prefix, suffix) ==
    { TempName(prefix, i, suffix) :
        i \in Least({ j \in Workers :
                        ~exists(fs, TempName(prefix, j, suffix)) }) }

\* webui.py:261  ThreadingHTTPServer: an exception that leaves a handler is
\* caught in the thread of its connection, the server goes on serving
ServerAfterRaiseDies(s) == "dead"

ServerAfterRaise(s) == s

\* the thread of a connection when its handler starts
Started(r) ==
    [pc |-> "recv", req |-> r, in |-> None, out |-> None, tmp |-> None,
     ff |-> FALSE, gs |-> FALSE, res |-> FALSE, status |-> 0,
     served |-> None]

handlerVars ==
    <<entry, pc, env, ns, req, opts, args, loc, remaining, written, result,
      status, exitCode, hist>>

\* webui.py:85-183  a connection is accepted and its thread runs
\* _handle_convert up to the input temp file; the connections are numbered
\* in the order of their acceptance
Accept(w) ==
    /\ server = "serving"
    /\ wk[w].pc = "free"
    /\ \A v \in Workers : v < w => wk[v].pc # "free"
    /\ \E r \in ServerRequests :
        LET t == Started(r)
        IN  IF r.fault = "badopt"
            THEN /\ wk' = [wk EXCEPT ![w] = [t EXCEPT !.pc = "crashed"]]
                 /\ server' = ServerAfterRaise(server)
                 /\ UNCHANGED fsys
            ELSE IF r.fault = "badlen"
            THEN /\ wk' = [wk EXCEPT ![w] = [t EXCEPT !.pc = "failed",
                                                      !.status = 400]]
                 /\ UNCHANGED <<server, fsys>>
            ELSE IF r.fault = "badtype"
            THEN /\ wk' = [wk EXCEPT ![w] = [t EXCEPT !.pc = "failed",
                                                      !.status = 415]]
                 /\ UNCHANGED <<server, fsys>>
            ELSE \E p \in NamedTemporaryFile(fsys, "gifify_in_", <<"bin">>) :
                    /\ fsys' = WriteFile(fsys, p, w)
                    /\ wk' = [wk EXCEPT ![w] = [t EXCEPT !.in = Some(p)]]
                    /\ UNCHANGED server
    /\ UNCHANGED handlerVars

\* webui.py:125-132  the body is received; a reset connection raises in
\* rfile.read and the exception leaves the handler
Receive(w) ==
    /\ server = "serving"
    /\ wk[w].pc = "recv"
    /\ IF wk[w].req.fault = "reset"
       THEN /\ wk' = [wk EXCEPT ![w].pc = "crashed"]
            /\ server' = ServerAfterRaise(server)
       ELSE /\ wk' = [wk EXCEPT ![w].pc = "mkout"]
            /\ UNCHANGED server
    /\ UNCHANGED <<fsys, handlerVars>>

\* webui.py:185-187 and gifify.py:131-138  the output temp file is created
\* and make_gif derives the path ffmpeg writes to
MakeOut(w) ==
    /\ server = "serving"
    /\ wk[w].pc = "mkout"
    /\ \E p \in NamedTemporaryFile(fsys, "gifify_out_", <<"gif">>) :
        /\ fsys' = WriteFile(fsys, p, w)
        /\ wk' = [wk EXCEPT ![w].out = Some(p),
                            ![w].tmp = Some(TmpOut(p, wk[w].req.optimize,
                                         WhichGifsicle(wk[w].req.optimize,
                                                       env))),
                            ![w].pc = "ffmpeg"]
    /\ UNCHANGED <<server, handlerVars>>

\* the file p is on the disk and holds what thread w wrote
Intact(fs, p, w) == exists(fs, p) /\ fs[p] = w

\* gifify.py:172-180  the thread waits for its ffmpeg child, which reads the
\* input temp file and writes tmp_out; a child that hangs never returns
Ffmpeg(w) ==
    /\ server = "serving"
    /\ wk[w].pc = "ffmpeg"
    /\ ~wk[w].req.hangs
    /\ \E ok \in BOOLEAN :
        LET good == ok /\ Intact(fsys, Get(wk[w].in), w)
            tmp_out == Get(wk[w].tmp)
        IN  /\ fsys' = IF good THEN WriteFile(fsys, tmp_out, w) ELSE fsys
            /\ wk' = [wk EXCEPT ![w].ff = ok,
                                ![w].res = good,
                                ![w].pc = IF good /\ tmp_out # Get(wk[w].out)
                                          THEN "gifsicle" ELSE "returned"]
    /\ UNCHANGED <<server, handlerVars>>

\* gifify.py:182-194  the thread waits for its gifsicle child, which reads
\* tmp_out and writes the output temp file; tmp_out is deleted on success
Gifsicle(w) ==
    /\ server = "serving"
    /\ wk[w].pc = "gifsicle"
    /\ \E ok \in BOOLEAN :
        LET good == ok /\ Intact(fsys, Get(wk[w].tmp), w)
            out == Get(wk[w].out)
        IN  /\ fsys' = IF good
                       THEN UnlinkTmp(WriteFile(fsys, out, w),
                                      Get(wk[w].tmp), out, TRUE)
                       ELSE fsys
            /\ wk' = [wk EXCEPT ![w].gs = ok,
                                ![w].res = good,
                                ![w].pc = "returned"]
    /\ UNCHANGED <<server, handlerVars>>

\* webui.py:208-230  the response (200 with the bytes of the output temp
\* file, 500 when make_gif or the reading raised) and the cleanup
Respond(w) ==
    /\ server = "serving"
    /\ wk[w].pc = "returned"
    /\ LET out == Get(wk[w].out)
           sent == wk[w].res /\ exists(fsys, out)
       IN  /\ wk' = [wk EXCEPT ![w].pc = IF sent THEN "done" ELSE "failed",
                               ![w].status = IF sent THEN 200 ELSE 500,
                               ![w].served = IF sent THEN Some(fsys[out])
                                             ELSE None]
           /\ fsys' = Cleanup(fsys, Get(wk[w].in), out, TRUE, TRUE)
    /\ UNCHANGED <<server, handlerVars>>

\* webui.py:268-273  KeyboardInterrupt ends serve_forever; the handler
\* threads are daemon threads and end with the process
Shutdown ==
    /\ server = "serving"
    /\ server' = "interrupted"
    /\ UNCHANGED <<wk, fsys, handlerVars>>

----------------------------------------------------------------------------
Init ==
    /\ entry \in {"cli", "http"}
    /\ pc = "idle"
    /\ env \in [ffmpeg : BOOLEAN, gifsicle : BOOLEAN]
    /\ fsys \in (IF entry = "cli" THEN CliDisks ELSE {EmptyFs})
    /\ ns = NoNs
    /\ req = NoReq
    /\ opts = NoOpts
    /\ args = NoArgs
    /\ loc = NoLoc
    /\ remaining = 0
    /\ written = 0
    /\ result = NoResult
    /\ status = 0
    /\ exitCode = -1
    /\ hist = NoHist
    /\ server = "serving"
    /\ wk = [w \in Workers |-> Free]

Next ==
    \/ Main
    \/ MakeGifStart
    \/ RunFfmpeg
    \/ Interrupt
    \/ RunGifsicle
    \/ RunRaises
    \/ MainReturn
    \/ HandleConvert
    \/ ReadChunk
    \/ ReadError
    \/ CreateOut
    \/ HandleResult

Spec == Init /\ [][Next]_vars

\* the server alone, with ffmpeg and gifsicle installed and an empty temp
\* directory
InitServer ==
    /\ entry = "http"
    /\ pc = "idle"
    /\ env = [ffmpeg |-> TRUE, gifsicle |-> TRUE]
    /\ fsys = EmptyFs
    /\ ns = NoNs
    /\ req = NoReq
    /\ opts = NoOpts
    /\ args = NoArgs
    /\ loc = NoLoc
    /\ remaining = 0
    /\ written = 0
    /\ result = NoResult
    /\ status = 0
    /\ exitCode = -1
    /\ hist = NoHist
    /\ server = "serving"
    /\ wk = [w \in Workers |-> Free]

NextServer ==
    \/ \E w \in Workers : Accept(w)
    \/ \E w \in Workers : Receive(w)
    \/ \E w \in Workers : MakeOut(w)
    \/ \E w \in Workers : Ffmpeg(w)
    \/ \E w \in Workers : Gifsicle(w)
    \/ \E w \in Workers : Respond(w)
    \/ Shutdown

SpecServer == InitServer /\ [][NextServer]_vars

\* a step of the handler thread w
WorkerStep(w) ==
    Receive(w) \/ MakeOut(w) \/ Ffmpeg(w) \/ Gifsicle(w) \/ Respond(w)

\* the threads are scheduled fairly and a child that does not hang exits
FairSpecServer ==
    SpecServer /\ \A w \in Workers : WF_vars(WorkerStep(w))

----------------------------------------------------------------------------
\* Properties.

\* the request or the CLI run has ended
Terminated == pc \in {"done", "failed", "crashed", "exited"}

\* C1: whenever ffmpeg exits with a non-zero code c, make_gif ends with
\* SystemExit(c) and gifsicle is not run afterwards, whatever optimize is and
\* whether or not gifsicle is installed.
C1_ProcessorFailureAborts ==
    (hist.ffmpegRuns > 0 /\ hist.ffmpegCode # 0) =>
        /\ result = SystemExit(hist.ffmpegCode)
        /\ hist.gifsicleRuns = 0
        /\ pc # "gifsicle"
        /\ (pc = "exited" => exitCode = hist.ffmpegCode)

\* C1 witness: ffmpeg failed with code 2 in a job that asked for the
\* optimizer, with gifsicle installed, and the job has ended.
C1_Witness ==
    /\ Terminated
    /\ hist.ffmpegRuns = 1
    /\ hist.ffmpegCode = 2
    /\ args.optimize
    /\ loc.gifsicle # None

\* C2 (as claimed): once the job has ended, on any exit path, the file that
\* ffmpeg wrote at the intermediate path <output>.tmp.gif is gone.
C2_NoTmpLeftover ==
    (Terminated /\ loc.set /\ loc.tmp_out # args.output_path) =>
        ~(/\ exists(fsys, loc.tmp_out)
          /\ fsys[loc.tmp_out] \in {"ffmpeg", "ffmpeg_partial"})

\* C3 (as claimed): when a /convert request has ended (200, an error status
\* or an exception), neither its input temp file nor its output temp file
\* exists, and a second cleanup changes nothing.
C3_TempFilesGone ==
    (entry = "http" /\ Terminated) =>
        /\ ~exists(fsys, HTTP_IN)
        /\ ~exists(fsys, HTTP_OUT)
        /\ Cleanup(fsys, HTTP_IN, HTTP_OUT, TRUE, TRUE) = fsys

\* C4 (as claimed): with overwrite false and a file at the requested output
\* path, make_gif leaves that file as it was and ends in a failure, never in
\* success, whatever optimize is and whether or not gifsicle is installed.
C4_ExistingOutputKept ==
    (args.called /\ ~args.overwrite /\ hist.preOut) =>
        /\ exists(fsys, args.output_path)
        /\ fsys[args.output_path] = "pre"
        /\ result.kind # "ok"

\* C5: with optimize set and gifsicle not installed, ffmpeg writes to the
\* requested output path (no intermediate path), gifsicle is never run, and
\* when ffmpeg exits 0 make_gif succeeds with a warning only.
C5_OptimizerUnavailable ==
    (args.called /\ args.optimize /\ ~env.gifsicle) =>
        /\ loc.set => loc.tmp_out = args.output_path
        /\ hist.ffmpegOut \subseteq {args.output_path}
        /\ hist.gifsicleRuns = 0
        /\ pc # "gifsicle"
        /\ (hist.ffmpegRuns > 0 /\ hist.ffmpegCode = 0) =>
              /\ result = Ok
              /\ hist.warned
              /\ pc = "returned" => fsys[args.output_path] = "ffmpeg"
        /\ hist.warned => result = Ok

\* C5 witness: make_gif has returned successfully with the warning, the
\* output file being the one ffmpeg wrote.
C5_Witness ==
    /\ pc = "returned"
    /\ args.optimize
    /\ ~env.gifsicle
    /\ hist.warned
    /\ result = Ok
    /\ fsys[args.output_path] = "ffmpeg"

\* both children have exited 0 in a job that ran the optimizer
BothSucceeded ==
    /\ hist.ffmpegRuns > 0
    /\ hist.ffmpegCode = 0
    /\ hist.gifsicleRuns > 0
    /\ hist.gifsicleCode = 0

\* C6 (as claimed): when both children exit 0, the output file is the one
\* gifsicle wrote from the intermediate path, which differs from the output
\* path, and after make_gif returns the intermediate file does not exist.
C6_IntermediateGone ==
    BothSucceeded =>
        /\ loc.tmp_out # args.output_path
        /\ hist.gifsicleIn = Some(loc.tmp_out)
        /\ hist.gifsicleOut = Some(args.output_path)
        /\ pc = "returned" => fsys[args.output_path] = "gifsicle"
        /\ ~exists(fsys, loc.tmp_out)

\* C6 (amended): when both children exit 0, make_gif succeeds, the output
\* file is the one gifsicle wrote from the intermediate path, which differs
\* from the output path, and the intermediate file does not exist afterwards
\* unless its deletion failed (the failure is swallowed).
C6_IntermediateGoneUnlessUnlinkFails ==
    BothSucceeded =>
        /\ result = Ok
        /\ loc.tmp_out # args.output_path
        /\ hist.gifsicleIn = Some(loc.tmp_out)
        /\ hist.gifsicleOut = Some(args.output_path)
        /\ hist.ffmpegOut = Some(loc.tmp_out)
        /\ pc = "returned" => fsys[args.output_path] = "gifsicle"
        /\ ~hist.unlinkFailed => ~exists(fsys, loc.tmp_out)

\* C6 witness: make_gif has returned after both children exited 0 and the
\* intermediate file was deleted.
C6_Witness ==
    /\ pc = "returned"
    /\ BothSucceeded
    /\ ~hist.unlinkFailed
    /\ fsys[args.output_path] = "gifsicle"
    /\ ~exists(fsys, loc.tmp_out)

\* a Content-Length header that is missing, blank, not an integer, zero or
\* negative
BadLens == {None, Some(""), Some("x"), Some("0"), Some("-1")}

\* C7 (as claimed): a raw upload whose Content-Length is missing, not an
\* integer, zero or negative is answered with 400 and creates no temp file.
C7_BadLengthRejected ==
    (req.present /\ req.ctype = OCTET /\ req.clen \in BadLens) =>
        /\ status = 400
        /\ hist.temps = {}

\* C8 (as claimed): a request whose content type is neither
\* application/octet-stream nor multipart/form-data is answered with 415,
\* creates no temp file and never calls make_gif.
C8_UnsupportedTypeRejected ==
    (req.present /\ req.ctype \notin {OCTET, MULTIPART}) =>
        /\ status = 415
        /\ hist.temps = {}
        /\ hist.calls = 0

\* the raw value the precedence rule selects for a field: the form field if
\* present and not blank, otherwise the query field if present (a blank
\* query field counts as absent), otherwise nothing
Selected(fld) ==
    IF req.f[fld] \notin {None, Some("")} THEN req.f[fld]
    ELSE IF req.q[fld] \notin {None, Some("")} THEN req.q[fld]
    ELSE None

\* the selected raw value, or the documented default
SelectedOr(fld, default) ==
    IF Selected(fld) = None THEN default ELSE Get(Selected(fld))

NumericFields == {"fps", "max_width", "colors", "loop", "lossy"}

\* the value selected for a numeric field does not parse
Unparsable(fld) ==
    /\ Selected(fld) # None
    /\ IF fld = "fps" THEN ParseFloat(Get(Selected(fld))) = None
       ELSE ParseInt(Get(Selected(fld))) = None

\* C10 (as claimed): an otherwise well-formed /convert request with a numeric
\* option that does not parse is answered with 400, make_gif is never called
\* and no temp file is left.
C10_BadOptionRejected ==
    (/\ req.present
     /\ req.body \in {"raw", "ok"}
     /\ req.ctype \in {OCTET, MULTIPART}
     /\ req.clen \notin BadLens
     /\ \E fld \in NumericFields : Unparsable(fld)) =>
        /\ status = 400
        /\ hist.calls = 0
        /\ ~exists(fsys, HTTP_IN)
        /\ ~exists(fsys, HTTP_OUT)

\* C11 (as claimed): a dither value outside the four recognized ones never
\* reaches build_filter, on the HTTP path and on the CLI path: make_gif is
\* not called for it, and the CLI exits with status 2.
C11_DitherValidated ==
    /\ (loc.set /\ loc.built) => args.dither \in DitherChoices
    /\ (req.present /\ Selected("dither") = Some("bogus")) => hist.calls = 0
    /\ (ns.parsed /\ ns.flags.dither = "bogus") =>
          /\ hist.calls = 0
          /\ exitCode = 2

\* C12: whenever make_gif, called for a /convert request, fails (ffmpeg or
\* gifsicle exits non-zero, ffmpeg is missing, or any exception is raised),
\* the request ends with a 500 response whose text carries the failure, and
\* the exception does not leave the handler.
C12_PipelineFailureIs500 ==
    (entry = "http" /\ Terminated /\ hist.calls > 0 /\ result.kind # "ok") =>
        /\ pc = "failed"
        /\ status = 500
        /\ hist.detail =
              "convert error: " \o
                  (IF result.kind = "exit" THEN ToString(result.code)
                   ELSE "OSError")
        /\ (hist.ffmpegRuns > 0 /\ hist.ffmpegCode # 0) =>
              result = SystemExit(hist.ffmpegCode)
        /\ (hist.gifsicleRuns > 0 /\ hist.gifsicleCode # 0) =>
              result = SystemExit(hist.gifsicleCode)
        /\ ~env.ffmpeg => result = SystemExit(2)

\* C12 witness: gifsicle exited 1 in a /convert request, answered with 500.
C12_Witness ==
    /\ entry = "http"
    /\ pc = "failed"
    /\ status = 500
    /\ hist.gifsicleRuns = 1
    /\ hist.gifsicleCode = 1
    /\ hist.detail = "convert error: 1"

\* a CLI run with a usage or missing-input error: no input at all, an input
\* file that does not exist, no output and no input to derive it from, or an
\* option value argparse rejects
UsageError ==
    \/ ns.input = None /\ ns.pattern = None
    \/ ns.input = Some(MISSING) /\ ns.pattern = None
    \/ ns.output = None /\ ns.input = None
    \/ ns.flags.dither \notin DitherChoices

\* C14 (as claimed): the CLI exits with 0 exactly when the conversion
\* succeeded, with 2 on a usage or missing-input error (overwrite being
\* allowed), with 1 when the output exists and overwrite was not requested
\* (the run being otherwise well-formed and ffmpeg installed), with the
\* child's code when ffmpeg or gifsicle exits non-zero, and with 130 on
\* interruption.
C14_ExitCodes ==
    (entry = "cli" /\ pc = "exited") =>
        /\ exitCode = 0 <=> result.kind = "ok"
        /\ (UsageError /\ ~ns.no_overwrite) => exitCode = 2
        /\ (~UsageError /\ env.ffmpeg /\ hist.preOut /\ ns.no_overwrite) =>
              exitCode = 1
        /\ (hist.ffmpegRuns > 0 /\ hist.ffmpegCode # 0) =>
              exitCode = hist.ffmpegCode
        /\ (hist.gifsicleRuns > 0 /\ hist.gifsicleCode # 0) =>
              exitCode = hist.gifsicleCode
        /\ result.kind = "interrupt" => exitCode = 130

\* the first position of x in a sequence, 0 when it does not occur
Pos(seq, x) ==
    IF \E i \in 1..Len(seq) : seq[i] = x
    THEN CHOOSE i \in 1..Len(seq) :
             /\ seq[i] = x
             /\ \A j \in 1..(i - 1) : seq[j] # x
    ELSE 0

\* the number of occurrences of x in a sequence
Count(seq, x) == Cardinality({ i \in 1..Len(seq) : seq[i] = x })

\* the stages of a filter expression, without the separators
Stages(vf) == SelectSeq(vf, LAMBDA t : t \notin {",", ";"})

\* the keyword paletteuse takes for a dither mode
DitherKeyword(mode) ==
    IF mode = "bayer" THEN "bayer:bayer_scale=5" ELSE mode

\* the max_width option before its normalisation
RawWidth ==
    IF entry = "cli" THEN ns.flags.max_width ELSE opts.max_width

\* C17: every filter expression built has its stages in the order frame
\* rate, scale bounded by min(iw,max_width) (only when max_width is set),
\* split, palette generation, palette application with the keyword of the
\* selected dither mode; and a raw max_width <= 0, on the command line or
\* in a request, reaches build_filter unset, so that no scale stage is
\* emitted.
C17_FilterStageOrder ==
    /\ (loc.set /\ loc.built) =>
          LET st == Stages(loc.vf)
              n == Len(st)
              w == args.max_width
          IN  /\ n = (IF w # None THEN 5 ELSE 4)
              /\ st[1] = "fps=" \o args.fps
              /\ w # None =>
                    st[2] = "scale='min(iw," \o ToString(Get(w))
                                \o ")':-1:flags=lanczos"
              /\ st[n - 2] = "split[s0][s1]"
              /\ st[n - 1] = "[s0]palettegen=stats_mode=diff:max_colors="
                                \o ToString(args.colors) \o "[p]"
              /\ args.dither \in DitherChoices =>
                    st[n] = "[s1][p]paletteuse=dither="
                                \o DitherKeyword(args.dither)
    /\ (args.called /\ RawWidth <= 0) =>
          /\ args.max_width = None
          /\ (loc.set /\ loc.built) => Len(Stages(loc.vf)) = 4

C17_Witness ==
    /\ loc.set /\ loc.built
    /\ RawWidth = 320
    /\ Stages(loc.vf)[2] = "scale='min(iw,320)':-1:flags=lanczos"

C17_WitnessUnset ==
    /\ loc.set /\ loc.built
    /\ RawWidth = -1
    /\ Len(Stages(loc.vf)) = 4

\* C18 as claimed: when max_width is absent the split stage is put into the
\* expression without a comma before it.
C18_SplitWithoutComma ==
    (loc.set /\ loc.built /\ args.max_width = None) =>
        LET i == Pos(loc.vf, "split[s0][s1]")
        IN  /\ i > 0
            /\ i > 1 => loc.vf[i - 1] # ","

\* C18 amended: when max_width is absent the split stage directly follows
\* the frame-rate stage and is separated from it by exactly one comma; the
\* expression never starts with the split stage.
C18_SplitFollowsFps ==
    (loc.set /\ loc.built /\ args.max_width = None) =>
        /\ Len(loc.vf) >= 3
        /\ loc.vf[1] = "fps=" \o args.fps
        /\ loc.vf[2] = ","
        /\ loc.vf[3] = "split[s0][s1]"
        /\ Count(loc.vf, ",") = 1

C18_Witness ==
    /\ loc.set /\ loc.built
    /\ args.max_width = None
    /\ Pos(loc.vf, "split[s0][s1]") = 3

\* a trim marker that was supplied: present and not empty
Supplied(m) == m # None /\ m # Some("")

\* the marker given with `flag` occurs once in cmd, with its value, before
\* the input locator; a marker that was not supplied does not occur
MarkerOnce(cmd, flag, m) ==
    IF Supplied(m)
    THEN /\ Count(cmd, flag) = 1
         /\ cmd[Pos(cmd, flag) + 1] = Get(m)
         /\ Pos(cmd, flag) < Pos(cmd, "-i")
    ELSE Count(cmd, flag) = 0

\* C19: in every ffmpeg command make_gif builds, for a single file and for
\* an image sequence, each supplied trim marker (start, duration, end)
\* occurs exactly once as a flag, all of them before the input locator
\* (-i), which comes before the filter expression, the loop count and the
\* output path; the command has exactly one overwrite-policy flag, the one
\* the overwrite option asks for.
C19_CommandOrder ==
    (loc.set /\ loc.cmd # <<>>) =>
        LET cmd == loc.cmd
            i == Pos(cmd, "-i")
            v == Pos(cmd, "-vf")
            l == Pos(cmd, "-loop")
        IN  /\ MarkerOnce(cmd, "-ss", args.start)
            /\ MarkerOnce(cmd, "-t", args.duration)
            /\ MarkerOnce(cmd, "-to", args.to)
            /\ Count(cmd, "-i") = 1
            /\ cmd[i + 1] = (IF args.pattern # None THEN Get(args.pattern)
                             ELSE PathStr(Get(args.input_path)))
            /\ i + 2 = v
            /\ cmd[v + 1] = Text(loc.vf)
            /\ v + 2 = l
            /\ cmd[l + 1] = ToString(args.loop)
            /\ l + 2 = Len(cmd)
            /\ cmd[Len(cmd)] = PathStr(loc.tmp_out)
            /\ Count(cmd, "-y") + Count(cmd, "-n") = 1
            /\ Count(cmd, "-y") = 1 <=> args.overwrite

C19_Witness ==
    /\ loc.set /\ loc.cmd # <<>>
    /\ Supplied(args.start) /\ Supplied(args.duration) /\ Supplied(args.to)
    /\ args.pattern = Some("frames/*.png")
    /\ Pos(loc.cmd, "-ss") = 4
    /\ Pos(loc.cmd, "-i") = 12

\* C20: for a raw upload declaring Content-Length n > 0 the handler never
\* takes more than n bytes from the connection, and when it goes on to the
\* conversion the input temp file holds exactly the n bytes of the body.
C20_ExactBody ==
    (entry = "http" /\ req.present /\ req.ctype = OCTET
         /\ pc \notin {"idle", "crashed"} /\ ContentLength(req.clen) # None
         /\ Get(ContentLength(req.clen)) > 0) =>
        LET n == Get(ContentLength(req.clen))
        IN  /\ written <= n
            /\ written + remaining = n
            /\ pc # "recv" => written = n

\* the handler of connection w has ended: with a response (done, failed) or
\* by an exception that left it (crashed)
Ended(w) == wk[w].pc \in {"done", "failed", "crashed"}

InFlight(w) == wk[w].pc \in {"recv", "mkout", "ffmpeg", "gifsicle", "returned"}

\* the status a request gets when it is handled alone: from what it brings
\* and from what its own children do (0: no response)
AloneStatus(w) ==
    CASE wk[w].req.fault \in {"badopt", "reset"} -> 0
      [] wk[w].req.fault = "badlen" -> 400
      [] wk[w].req.fault = "badtype" -> 415
      [] OTHER -> IF wk[w].ff /\ (wk[w].req.optimize => wk[w].gs)
                  THEN 200 ELSE 500

\* C13: whatever requests were handled before, including ones that raised
\* while their options were parsed, their body was received or the pipeline
\* ran, the server has not died (it serves until the operator interrupts
\* it); every request ends with the outcome it has when handled alone, a 200
\* carrying its own artifact; and a well-formed request that was accepted,
\* whose child processes exit, is eventually answered (unless the operator
\* interrupts the server first).
C13_ServerSurvives ==
    /\ [](server \in {"serving", "interrupted"})
    /\ [](\A w \in Workers :
            Ended(w) => /\ wk[w].status = AloneStatus(w)
                        /\ wk[w].status = 200 => wk[w].served = Some(w))
    /\ \A w \in Workers :
          (wk[w].pc # "free" /\ wk[w].req.fault = "none" /\ ~wk[w].req.hangs)
              ~> (wk[w].pc \in {"done", "failed"} \/ server = "interrupted")

C13_Witness ==
    \E v \in Workers, w \in Workers :
        /\ v < w
        /\ wk[v].pc = "crashed" /\ wk[v].req.fault = "badopt"
        /\ wk[w].pc = "done" /\ wk[w].status = 200
        /\ wk[w].served = Some(w)

\* the temp paths of the request of connection w
PathsOf(w) ==
    IF wk[w].pc = "free" THEN {} ELSE wk[w].in \cup wk[w].out \cup wk[w].tmp

\* C15: the temp paths of the requests handled at the same time are pairwise
\* distinct: within a request the input temp file, the output temp file and
\* the intermediate <output>.tmp.gif differ, no path belongs to two requests
\* in flight, and the files a request in flight has made are on the disk
\* with the content this request wrote (no other request has replaced or
\* deleted them); a file found at the intermediate path was left there by a
\* request that has ended.
C15_TempPathsDistinct ==
    /\ \A w \in Workers :
          InFlight(w) =>
              /\ wk[w].in # None
              /\ wk[w].out # None => /\ wk[w].out # wk[w].in
                                     /\ wk[w].tmp # wk[w].in
                                     /\ wk[w].req.optimize =>
                                            wk[w].tmp # wk[w].out
              /\ \A p \in wk[w].in \cup wk[w].out : Intact(fsys, p, w)
              /\ \A p \in wk[w].tmp :
                    exists(fsys, p) => (fsys[p] = w \/ ~InFlight(fsys[p]))
    /\ \A v \in Workers, w \in Workers :
          (v # w /\ InFlight(v) /\ InFlight(w)) =>
              PathsOf(v) \cap PathsOf(w) = {}

C15_Witness ==
    \E v \in Workers, w \in Workers :
        /\ v # w
        /\ wk[v].pc = "gifsicle" /\ wk[w].pc = "gifsicle"
        /\ Cardinality(PathsOf(v) \cup PathsOf(w)) = 6

\* another request is stuck in Converting: its ffmpeg child never exits
OtherStuck(w) ==
    \E v \in Workers :
        /\ v # w
        /\ wk[v].pc = "ffmpeg"
        /\ wk[v].req.hangs

\* C16: while one request is stuck in Converting, every other accepted
\* request whose client stays connected and whose own children exit still
\* gets to Done or Failed (unless the operator interrupts the server).
C16_OthersReachDoneOrFailed ==
    \A w \in Workers :
        (OtherStuck(w) /\ wk[w].pc # "free" /\ ~wk[w].req.hangs
             /\ wk[w].req.fault # "reset")
            ~> (wk[w].pc \in {"done", "failed"} \/ server = "interrupted")

\* on the HTTP path make_gif is called with overwrite = TRUE while the
\* output temp file exists as a placeholder, the ffmpeg command carries -y,
\* and no request ends in the pre-existing-output failure (SystemExit(1)
\* before any child has run)
OverwriteAlways ==
    (entry = "http" /\ args.called) =>
        /\ args.overwrite
        /\ pc = "make_gif" => /\ exists(fsys, HTTP_OUT)
                              /\ fsys[HTTP_OUT] = "placeholder"
        /\ (loc.set /\ loc.cmd # <<>>) => Count(loc.cmd, "-y") = 1
        /\ ~(result = SystemExit(1) /\ hist.ffmpegRuns = 0)

\* C21: on the HTTP path the only file that exists where a child process of
\* a request is about to write is the placeholder this request made as its
\* output temp file: the path ffmpeg writes to holds no other file, and
\* gifsicle writes over the request's own output temp file.
C21_OnlyPlaceholderReplaced ==
    \A w \in Workers :
        /\ wk[w].pc = "ffmpeg" =>
              \A p \in wk[w].tmp :
                  exists(fsys, p) => (p \in wk[w].out /\ fsys[p] = w)
        /\ wk[w].pc = "gifsicle" =>
              \A p \in wk[w].out : Intact(fsys, p, w)

====
